---- MODULE Spec2Model ----
(***************************************************************************)
(* pyTeletask: the DoIP telegram codec (teletask/doip/telegram.py), the    *)
(* telegram queue (teletask/core/telegram_queue.py) and the parts of the   *)
(* Teletask object and the TCP client that feed and drain it.              *)
(*                                                                         *)
(* Two specifications:                                                     *)
(*   CodecSpec  constructs one Telegram from drawn arguments and encodes   *)
(*              it with str(); also encodes the heartbeat.                 *)
(*   Spec       the asyncio.Queue of teletask.telegrams with its producers *)
(*              (devices, register_feedback, the TCP reader, the heartbeat *)
(*              task), the consumer task TelegramQueue.run and             *)
(*              Teletask.stop.  FairSpec adds the event loop's fairness.   *)
(***************************************************************************)
EXTENDS Integers, Sequences, FiniteSets, TLC

VARIABLES
    \* ---- codec (CodecSpec) ----
    args,          \* the arguments Telegram(...) is called with
    tg,            \* the Telegram object: its __dict__, or NoTelegram
    ctor,          \* outcome of Telegram.__init__: "none" | "ok" | exception name
    enc,           \* outcome of str(telegram): "none" | "text" | exception name
    txt,           \* the text str(telegram) returned
    hbtxt,         \* the text str(TelegramHeartbeat()) returned last
    hbcalls,       \* number of heartbeat encodings done
    \* ---- queue (Spec) ----
    telegrams,     \* Teletask.telegrams: the asyncio.Queue's items, head first
    unfinished,    \* asyncio.Queue._unfinished_tasks
    runPc,         \* task TelegramQueue.run: "idle" | "running" | "stopped" | "crashed"
    hbPc,          \* task TelegramQueue.start_heartbeat: "idle" | "running"
    queue_stopped, \* TelegramQueue.queue_stopped (asyncio.Event)
    interface,     \* Teletask.teletaskip_interface is not None
    started,       \* Teletask.started
    stopPc,        \* coroutine Teletask.stop: "idle" | "join" | "woken" | "wait" | "done"
    cbs,           \* TelegramQueue.telegram_received_cbs (listener ids)
    nextId,        \* identity of the next object put on the queue
    wire,          \* what Client.ClientFactory.send wrote to the transport
    routed,        \* the items handed to process_telegram_incoming
    errors,        \* what process_telegram caught and logged
    popped,        \* the items TelegramQueue.run took from the queue
    submitted,     \* the Telegrams devices and register_feedback put on the queue
    stops,         \* number of calls of Teletask.stop
    stopAt,        \* what the last call of Teletask.stop found: consumer running, items queued
    \* ---- decoder (DecoderSpec) ----
    raw,           \* the bytes one call of data_received gets, as ints
    runs,          \* the runs the peer sent that make up raw: [kind, at, toks]
    frames,        \* what FrameQueue.process_frames returned for raw
    decodePc,      \* "recv": raw is being assembled | "decoded"
    carried,       \* the previous call of data_received, when it ended inside a run:
                   \* [raw, frames], both empty otherwise
    \* ---- devices (RemoteValueSpec, RouteSpec) ----
    registered_devices, \* Teletask.registered_devices: name -> (key -> device)
    created,       \* the devices constructed so far
    payload,       \* device.switch.payload
    brightness_val,\* device.switch.brightness_val
    changes,       \* number of calls of device.switch.after_update_cb
    stateCalls,    \* the calls of device.change_state: [d, id, state]
    heard,         \* the listener calls made: [cb, id] in call order
    events,        \* the Frames process_telegram_incoming got: [id, fr, target]
    ops,           \* the calls made on a RemoteValue by its owner: set, state
    \* ---- listeners ----
    unregs         \* the calls of unregister_telegram_received_cb: [cb, arg, raised, at]

cvars == <<args, tg, ctor, enc, txt, hbtxt, hbcalls>>
dvars == <<raw, runs, frames, decodePc, carried>>
rvars == <<registered_devices, created, payload, brightness_val, changes, stateCalls,
           heard, events, ops>>
qvars == <<telegrams, unfinished, runPc, hbPc, queue_stopped, interface, started,
           stopPc, cbs, nextId, wire, routed, errors, popped, submitted, stops,
           stopAt>>
lvars == <<unregs>>
notCodec == <<qvars, dvars, rvars, lvars>>
notQueue == <<cvars, dvars, rvars, lvars>>
notDecoder == <<cvars, qvars, rvars, lvars>>
notDevices == <<cvars, dvars, lvars>>
vars == <<cvars, qvars, dvars, rvars, lvars>>

(***************************************************************************)
(* Values.  A Python value that reaches a payload slot is an int, None or  *)
(* the Enum member TeletaskConst.CENTRAL (an Enum, not an IntEnum).        *)
(***************************************************************************)
IntV(n) == [t |-> "int", v |-> n]
NoneV == [t |-> "None", v |-> 0]

START == 2
CENTRAL == 1
SET == 7
GET == 6
GROUPGET == 9
LOG == 3
KEEPALIVE == 11
RELAY == 1
DIMMER == 2
ON == 255
TOGGLE == 103
OFF == 0

\* TeletaskConst.CENTRAL, the member itself
CentralMember == [t |-> "TeletaskConst", v |-> CENTRAL]

\* TelegramCommand members by name; "None" is command=None.
CommandValue(c) ==
    CASE c = "SET" -> SET
      [] c = "GET" -> GET
      [] c = "GROUPGET" -> GROUPGET
      [] c = "LOG" -> LOG
      [] OTHER -> 0

NoTelegram == [start |-> 0, length |-> 0, command |-> 0, payload |-> <<>>, checksum |-> 0]

RECURSIVE SumValues(_)
SumValues(p) == IF p = <<>> THEN 0 ELSE Head(p).v + SumValues(Tail(p))

AllInts(p) == \A i \in 1..Len(p) : p[i].t = "int"

\* "{!s}".format(val)
FieldStr(x) ==
    CASE x.t = "int" -> ToString(x.v)
      [] x.t = "None" -> "None"
      [] OTHER -> "TeletaskConst.CENTRAL"

\* ','.join(...)
RECURSIVE JoinComma(_)
JoinComma(p) ==
    IF p = <<>> THEN ""
    ELSE IF Len(p) = 1 THEN FieldStr(p[1])
    ELSE FieldStr(p[1]) \o "," \o JoinComma(Tail(p))

(***************************************************************************)
(* Telegram.__init__: the exception it raises, or "ok".                    *)
(***************************************************************************)
TelegramInitOutcome(a) ==
    CASE a.command = "LOG" -> IF a.function.t = "None" THEN "AttributeError" ELSE "ok"
      [] a.command = "GET" -> IF a.function.t = "None" THEN "AttributeError" ELSE "ok"
      [] a.command = "SET" -> "ok"
      [] OTHER -> "CouldNotParseTeletaskCommand"

\* The payload dict after __init__, as the sequence of its values in key order.
BasePayload(a) ==
    CASE a.command = "LOG" -> <<a.function, IntV(1)>>
      [] a.command = "GET" -> <<CentralMember, a.function, IntV(0), a.address>>
      [] OTHER -> <<CentralMember, a.function>>

TelegramPayload(a) ==
    IF a.setting.t = "None" THEN BasePayload(a)
    ELSE SubSeq(BasePayload(a), 1, 2) \o <<IntV(0), a.address, a.setting>>

TelegramNew(a) ==
    [start |-> START, length |-> 0, command |-> CommandValue(a.command),
     payload |-> TelegramPayload(a), checksum |-> 0]

(***************************************************************************)
(* Telegram.__str__ = calc_length; calc_checksum; format.                  *)
(***************************************************************************)
CalcLength(t) == [t EXCEPT !.length = Len(t.payload) + 3]

\* sum() over the payload values raises TypeError on a value that is no int
ChecksumRaises(t) == ~AllInts(t.payload)

CalcChecksum(t) ==
    [t EXCEPT !.checksum = (SumValues(t.payload) + t.start + t.length + t.command) % 256]

\* A format that also transmits the start marker
TelegramFormatWithStart(t) ==
    "s," \o ToString(t.start) \o "," \o ToString(t.length) \o "," \o
    ToString(t.command) \o "," \o JoinComma(t.payload) \o "," \o
    ToString(t.checksum) \o ","

TelegramFormat(t) ==
    "s," \o ToString(t.length) \o "," \o ToString(t.command) \o "," \o
    JoinComma(t.payload) \o "," \o ToString(t.checksum) \o ","

\* A heartbeat whose checksum leaves the start marker out
HeartbeatStrNoStart ==
    "s,3," \o ToString(KEEPALIVE) \o "," \o ToString((3 + 11) % 256) \o ","

\* TelegramHeartbeat.__str__
HeartbeatStr ==
    "s,3," \o ToString(KEEPALIVE) \o "," \o ToString((2 + 3 + 11) % 256) \o ","

(***************************************************************************)
(* CodecSpec                                                               *)
(***************************************************************************)
MaxCalls == 2

Commands == {"LOG", "GET", "SET", "GROUPGET", "None"}
Functions == {NoneV, IntV(RELAY), IntV(DIMMER)}
Addresses == {NoneV, IntV(1), IntV(3)}
Settings == {NoneV, IntV(OFF), IntV(TOGGLE), IntV(ON)}

ArgSets == [command : Commands, function : Functions, address : Addresses,
            setting : Settings]

(***************************************************************************)
(* The decoder.  FrameQueue.process_frames joins the bytes of one buffer   *)
(* with commas and scans the text with the regular expression              *)
(*     (2,9,16,([0-9]*,?){7})                                              *)
(* The text is a comma-joined list of decimal numbers without a trailing   *)
(* comma, so a match is described by the tokens it covers:                 *)
(*  - "2,9,16," matches where a token ends in the digit 2 (the search is by*)
(*    character, so 12 or 22 do as well as 2), the next two tokens are 9   *)
(*    and 16, and one more token follows (the comma after 16);             *)
(*  - each of the 7 repetitions of [0-9]*,? then takes one whole token and *)
(*    its comma, or nothing at the end of the text;                        *)
(*  - findall resumes the search behind the match.                         *)
(***************************************************************************)
Byte == 0..255
RegexRepeat == 7

\* one well-formed status report for (function, address, state)
WellFormedRun(f, a, st) == <<2, 9, 16, 1, f, 0, a, 0, st>>

\* str(x) for x in raw
Str(x) == ToString(x)

\* int(s): defined on the decimal text of a byte, ValueError on ''
IsInt(s) == \E n \in Byte : ToString(n) = s
ParseInt(s) == CHOOSE n \in Byte : ToString(n) = s

Min(a, b) == IF a < b THEN a ELSE b

\* the regular expression's literal part matches at token i
HeaderAt(buf, i) ==
    /\ i + 3 <= Len(buf)
    /\ buf[i] % 10 = 2
    /\ buf[i + 1] = 9
    /\ buf[i + 2] = 16

\* the last token the match starting at token i covers
MatchEnd(buf, i) == Min(Len(buf), i + 2 + RegexRepeat)

\* packet.split(","): the matched text starts at the digit 2; a match that
\* ends with a comma gives a last element ''
PacketSplit(buf, i) ==
    <<"2", "9", "16">>
        \o [k \in 1..(MatchEnd(buf, i) - (i + 2)) |-> Str(buf[i + 2 + k])]
        \o (IF MatchEnd(buf, i) < Len(buf) THEN <<"">> ELSE <<>>)

NoneFrame == [none |-> TRUE, doip_component |-> 0, group_address |-> 0, state |-> 0]

\* process_frame reading the state from the wrong element
ProcessFrameStateAtSeven(event) ==
    IF Len(event) >= 9 /\ IsInt(event[5]) /\ IsInt(event[7]) /\ IsInt(event[8])
    THEN [none |-> FALSE,
          doip_component |-> ParseInt(event[5]),
          group_address |-> ParseInt(event[7]),
          state |-> ParseInt(event[8])]
    ELSE NoneFrame

\* process_frame: event[4], event[6], event[8] (from 0); IndexError and
\* ValueError are caught and give None
ProcessFrame(event) ==
    IF Len(event) >= 9 /\ IsInt(event[5]) /\ IsInt(event[7]) /\ IsInt(event[9])
    THEN [none |-> FALSE,
          doip_component |-> ParseInt(event[5]),
          group_address |-> ParseInt(event[7]),
          state |-> ParseInt(event[9])]
    ELSE NoneFrame

\* re.findall from token i on: the matches, as [at, frame]
RECURSIVE FindAll(_, _)
FindAll(buf, i) ==
    IF i > Len(buf) THEN <<>>
    ELSE IF HeaderAt(buf, i)
         THEN <<[at |-> i, frame |-> ProcessFrame(PacketSplit(buf, i))]>>
                  \o FindAll(buf, MatchEnd(buf, i) + 1)
         ELSE FindAll(buf, i + 1)

\* process_frames: the frames that are not None, in match order
ProcessFrames(buf) ==
    LET IsFrame(m) == ~m.frame.none
        ms == SelectSeq(FindAll(buf, 1), IsFrame)
    IN  [k \in 1..Len(ms) |->
            [doip_component |-> ms[k].frame.doip_component,
             group_address |-> ms[k].frame.group_address,
             state |-> ms[k].frame.state]]

NothingCarried == [raw |-> <<>>, frames |-> <<>>]

DecoderIdle ==
    /\ raw = <<>>
    /\ runs = <<>>
    /\ frames = <<>>
    /\ decodePc = "recv"
    /\ carried = NothingCarried

(***************************************************************************)
(* Devices.  A Switch owns one RemoteValueSwitch (device.switch); its      *)
(* constructor calls Teletask.register_device.  A group address is what    *)
(* the caller passed: a decimal string as in the example program, or an    *)
(* int.  A payload is None, the int set() stored, or the member of         *)
(* RemoteValueSwitch.Value that state() stored; Python compares an int and *)
(* an Enum member unequal, as the records below do.                        *)
(***************************************************************************)
StrV(n) == [t |-> "str", v |-> n]
ValueMember(n) == [t |-> "Value", v |-> n]

Devices == {"sw", "sw2"}

\* a RemoteValueScaling built as Light builds its brightness value: component
\* "DIMMER", range 0..100, bound to address '2'
Scalings == {"brightness"}
RangeFrom == 0
RangeTo == 100

\* the brightness value of a Light constructed without group_address_brightness:
\* a RemoteValueScaling whose group_address is None
Unbound == {"nobrightness"}

\* the switch value of a device constructed with a doip_component that names
\* no TelegramFunction (Switch(..., doip_component="lamp")), bound to '1'
Misnamed == {"lamp"}

RemoteValues == Devices \cup Scalings \cup Unbound \cup Misnamed

DevComponent(d) ==
    CASE d \in Scalings \cup Unbound -> "DIMMER"
      [] d \in Misnamed -> "LAMP"
      [] OTHER -> "RELAY"

DevAddress(d) ==
    CASE d \in Scalings -> StrV(2)
      [] d \in Unbound -> NoneV
      [] OTHER -> StrV(1)

\* TelegramFunction[name] is defined; KeyError otherwise
KnownFunction(name) == name \in {"RELAY", "DIMMER"}

\* TelegramFunction(code).name, ValueError for a code that is no member
FunctionName(code) ==
    CASE code = RELAY -> "RELAY"
      [] code = DIMMER -> "DIMMER"
      [] OTHER -> "ValueError"

\* TelegramFunction[name].value
FunctionCode(name) == IF name = "DIMMER" THEN DIMMER ELSE RELAY

\* a RemoteValue that takes every group_address for a binding
InitializedAlways(addr) == TRUE

\* RemoteValue.initialized: bool(self.group_address)
Initialized(addr) ==
    CASE addr.t = "None" -> FALSE
      [] addr.t = "int" -> addr.v # 0
      [] OTHER -> TRUE

\* the test that guards the callback, in set() and state() alike
UpdatedAlways(cur, new) == TRUE

UpdatedNever(cur, new) == FALSE

Updated(cur, new) == cur = NoneV \/ new # cur

\* state(): Value.ON if int(raw_value) == TelegramSetting.ON.value else Value.OFF
StateValue(raw_value) == IF raw_value = ON THEN ValueMember(ON) ELSE ValueMember(OFF)

\* dict[key] = value
DictSet(d, k, v) == [x \in (DOMAIN d) \cup {k} |-> IF x = k THEN v ELSE d[x]]
EmptyDict == [x \in {} |-> 0]

\* a lookup that takes whatever device the name holds, whatever its key
LookupAnyKey(reg, name, group_address) ==
    IF name \notin DOMAIN reg THEN "skip"
    ELSE IF DOMAIN reg[name] # {} THEN reg[name][CHOOSE k \in DOMAIN reg[name] : TRUE]
    ELSE "KeyError"

\* registered_devices[name][str(group_address)], "KeyError" when absent;
\* "skip" when the name itself is no key (the 'in' test)
Lookup(reg, name, group_address) ==
    IF name \notin DOMAIN reg THEN "skip"
    ELSE IF StrV(group_address) \in DOMAIN reg[name] THEN reg[name][StrV(group_address)]
    ELSE "KeyError"

DevicesIdle ==
    /\ registered_devices = EmptyDict
    /\ created = {}
    /\ payload = [d \in RemoteValues |-> NoneV]
    /\ brightness_val = [d \in RemoteValues |-> 0]
    /\ changes = [d \in RemoteValues |-> 0]
    /\ stateCalls = <<>>
    /\ heard = <<>>
    /\ events = <<>>
    /\ ops = <<>>
    /\ unregs = <<>>

QueueInit ==
    /\ telegrams = <<>>
    /\ unfinished = 0
    /\ runPc = "idle"
    /\ hbPc = "idle"
    /\ queue_stopped = FALSE
    /\ interface = FALSE
    /\ started = FALSE
    /\ stopPc = "idle"
    /\ cbs = <<>>
    /\ nextId = 1
    /\ wire = <<>>
    /\ routed = <<>>
    /\ errors = <<>>
    /\ popped = <<>>
    /\ submitted = <<>>
    /\ stops = 0
    /\ stopAt = [running |-> FALSE, queued |-> FALSE]

CodecIdle ==
    /\ tg = NoTelegram
    /\ ctor = "none"
    /\ enc = "none"
    /\ txt = ""
    /\ hbtxt = ""
    /\ hbcalls = 0

CodecInit ==
    /\ args \in ArgSets
    /\ CodecIdle
    /\ QueueInit
    /\ DecoderIdle
    /\ DevicesIdle

\* telegram = Telegram(command, function, address, setting)
TelegramInit ==
    /\ ctor = "none"
    /\ ctor' = TelegramInitOutcome(args)
    /\ tg' = IF TelegramInitOutcome(args) = "ok" THEN TelegramNew(args) ELSE NoTelegram
    /\ UNCHANGED <<args, enc, txt, hbtxt, hbcalls>>
    /\ UNCHANGED notCodec

\* str(telegram), also telegram.to_teletask()
TelegramStr ==
    /\ ctor = "ok"
    /\ enc = "none"
    /\ IF ChecksumRaises(CalcLength(tg))
       THEN /\ tg' = CalcLength(tg)
            /\ enc' = "TypeError"
            /\ txt' = txt
       ELSE /\ tg' = CalcChecksum(CalcLength(tg))
            /\ enc' = "text"
            /\ txt' = TelegramFormat(CalcChecksum(CalcLength(tg)))
    /\ UNCHANGED <<args, ctor, hbtxt, hbcalls>>
    /\ UNCHANGED notCodec

\* str(TelegramHeartbeat())
HeartbeatEncode ==
    /\ hbcalls < MaxCalls
    /\ hbtxt' = HeartbeatStr
    /\ hbcalls' = hbcalls + 1
    /\ UNCHANGED <<args, tg, ctor, enc, txt>>
    /\ UNCHANGED notCodec

CodecNext ==
    \/ TelegramInit
    \/ TelegramStr
    \/ HeartbeatEncode

CodecSpec == CodecInit /\ [][CodecNext]_vars

(***************************************************************************)
(* The queue.  An item is the object put on teletask.telegrams: a Telegram *)
(* (devices, register_feedback), a Frame (the TCP reader), a               *)
(* TelegramHeartbeat (the heartbeat task) or None (stop).                  *)
(***************************************************************************)
MaxItems == 3
MaxStops == 2

NoFrame == [doip_component |-> 0, group_address |-> 0, state |-> 0]

TelegramItem(id, t) == [id |-> id, cls |-> "Telegram", tg |-> t, fr |-> NoFrame]
FrameItem(id, f) == [id |-> id, cls |-> "Frame", tg |-> NoTelegram, fr |-> f]
HeartbeatItem(id) == [id |-> id, cls |-> "TelegramHeartbeat", tg |-> NoTelegram, fr |-> NoFrame]
NoneItem(id) == [id |-> id, cls |-> "NoneType", tg |-> NoTelegram, fr |-> NoFrame]

DeviceFunctions == {RELAY}
DeviceAddresses == {1}
FrameStates == {ON}
\* the function byte of a decoded Frame: RELAY, or 99, which is no member of
\* TelegramFunction
FrameFunctions == {RELAY, 99}
Listeners == {1, 2}
MaxUnregs == 1

Ids(s) == {s[i].id : i \in 1..Len(s)}

\* asyncio.Queue.put on the unbounded queue: never blocks, never refuses
Put(q, item) == Append(q, item)

Init ==
    /\ args = [command |-> "None", function |-> NoneV, address |-> NoneV, setting |-> NoneV]
    /\ CodecIdle
    /\ QueueInit
    /\ DecoderIdle
    /\ DevicesIdle

\* TelegramQueue.register_telegram_received_cb
RegisterListener ==
    /\ Len(cbs) + 1 \in Listeners
    /\ \A i \in 1..Len(cbs) : cbs[i] # Len(cbs) + 1
    /\ cbs' = Append(cbs, Len(cbs) + 1)
    /\ UNCHANGED <<telegrams, unfinished, runPc, hbPc, queue_stopped, interface, started,
                   stopPc, nextId, wire, routed, errors, popped, submitted, stops, stopAt>>
    /\ UNCHANGED notQueue

\* list.remove(x): the list without its first element equal to x
Remove(s, x) ==
    LET i == CHOOSE i \in 1..Len(s) : s[i] = x /\ \A j \in 1..(i - 1) : s[j] # x
    IN  SubSeq(s, 1, i - 1) \o SubSeq(s, i + 1, Len(s))

\* Whether telegram_received_cbs holds an element equal to the argument of
\* unregister_telegram_received_cb.  The list holds the Callback objects the
\* registrations made; a Callback has no __eq__, so it equals itself only and
\* never the function it wraps
InCallbacks(k, arg) == arg = "Callback" /\ \E i \in 1..Len(cbs) : cbs[i] = k

\* TelegramQueue.unregister_telegram_received_cb, called for listener k with
\* the function that was registered ("function") or with the Callback object
\* register_telegram_received_cb returned ("Callback")
UnregisterListener ==
    /\ Len(unregs) < MaxUnregs
    /\ \E k \in Listeners, arg \in {"function", "Callback"} :
        /\ \E i \in 1..Len(cbs) : cbs[i] = k
        /\ cbs' = IF InCallbacks(k, arg) THEN Remove(cbs, k) ELSE cbs
        /\ unregs' = Append(unregs, [cb |-> k, arg |-> arg,
                                     raised |-> IF InCallbacks(k, arg) THEN "none"
                                                ELSE "ValueError",
                                     at |-> nextId])
    /\ UNCHANGED <<telegrams, unfinished, runPc, hbPc, queue_stopped, interface, started,
                   stopPc, nextId, wire, routed, errors, popped, submitted, stops, stopAt>>
    /\ UNCHANGED <<cvars, dvars, rvars>>

\* Teletask.start: the interface, then TelegramQueue.start creates both tasks
Start ==
    /\ runPc = "idle"
    /\ interface' = TRUE
    /\ runPc' = "running"
    /\ hbPc' = "running"
    /\ started' = TRUE
    /\ UNCHANGED <<telegrams, unfinished, queue_stopped, stopPc, cbs, nextId, wire,
                   routed, errors, popped, submitted, stops, stopAt>>
    /\ UNCHANGED notQueue

\* Where the queue is in its life when a Telegram is submitted
QueuePhase ==
    CASE runPc = "idle" -> "before_start"
      [] runPc = "running" -> "running"
      [] stopPc = "done" -> "after_stop"
      [] OTHER -> "stopping"

\* The same submission by a queue that refuses what it gets while no consumer
\* is running
SubmitOnlyRunning(a) ==
    /\ nextId <= MaxItems
    /\ TelegramInitOutcome(a) = "ok"
    /\ telegrams' = IF runPc = "running"
                    THEN Put(telegrams, TelegramItem(nextId, TelegramNew(a)))
                    ELSE telegrams
    /\ unfinished' = IF runPc = "running" THEN unfinished + 1 ELSE unfinished
    /\ submitted' = Append(submitted, [id |-> nextId, phase |-> QueuePhase])
    /\ nextId' = nextId + 1
    /\ UNCHANGED <<runPc, hbPc, queue_stopped, interface, started, stopPc, cbs, wire,
                   routed, errors, popped, stops, stopAt>>
    /\ UNCHANGED notDevices

\* A device or register_feedback builds Telegram(a) and awaits telegrams.put
Submit(a) ==
    /\ nextId <= MaxItems
    /\ TelegramInitOutcome(a) = "ok"
    /\ telegrams' = Put(telegrams, TelegramItem(nextId, TelegramNew(a)))
    /\ unfinished' = unfinished + 1
    /\ submitted' = Append(submitted, [id |-> nextId, phase |-> QueuePhase])
    /\ nextId' = nextId + 1
    /\ UNCHANGED <<runPc, hbPc, queue_stopped, interface, started, stopPc, cbs, wire,
                   routed, errors, popped, stops, stopAt>>
    /\ UNCHANGED notDevices

\* RemoteValue.current_state
CurrentState ==
    \E f \in DeviceFunctions, g \in DeviceAddresses :
        /\ Submit([command |-> "GET", function |-> IntV(f), address |-> IntV(g),
                   setting |-> NoneV])
        /\ UNCHANGED rvars

\* RemoteValue.send, as RemoteValue.set calls it: the setting is a TeletaskValue
\* holding the default receivedSetting
Send ==
    \E f \in DeviceFunctions, g \in DeviceAddresses :
        /\ Submit([command |-> "SET", function |-> IntV(f), address |-> IntV(g),
                   setting |-> IntV(TOGGLE)])
        /\ UNCHANGED rvars

\* Teletask.register_feedback, one of its five steps: the function's
\* dictionary is replaced by an empty one, then the Log Telegram is put
RegisterFeedback ==
    \E f \in DeviceFunctions :
        /\ Submit([command |-> "LOG", function |-> IntV(f), address |-> NoneV,
                   setting |-> NoneV])
        /\ registered_devices' = DictSet(registered_devices, FunctionName(f), EmptyDict)
        /\ UNCHANGED <<created, payload, brightness_val, changes, stateCalls, heard,
                       events, ops>>

\* TeletaskDoIPInterface.telegram_received: the task it creates puts the Frame
TelegramReceived ==
    /\ interface
    /\ nextId <= MaxItems
    /\ \E f \in FrameFunctions, g \in DeviceAddresses, s \in FrameStates :
        telegrams' = Put(telegrams, FrameItem(nextId,
                         [doip_component |-> f, group_address |-> g, state |-> s]))
    /\ unfinished' = unfinished + 1
    /\ nextId' = nextId + 1
    /\ UNCHANGED <<runPc, hbPc, queue_stopped, interface, started, stopPc, cbs, wire,
                   routed, errors, popped, submitted, stops, stopAt>>
    /\ UNCHANGED notQueue

\* A heartbeat task that writes to the transport itself instead of queueing
StartHeartbeatWriting ==
    /\ hbPc = "running"
    /\ nextId <= MaxItems
    /\ wire' = Append(wire, [id |-> nextId, text |-> HeartbeatStr])
    /\ nextId' = nextId + 1
    /\ UNCHANGED <<telegrams, unfinished, runPc, hbPc, queue_stopped, interface, started,
                   stopPc, cbs, routed, errors, popped, submitted, stops, stopAt>>
    /\ UNCHANGED notQueue

\* TelegramQueue.start_heartbeat: one round of its loop
StartHeartbeat ==
    /\ hbPc = "running"
    /\ nextId <= MaxItems
    /\ telegrams' = Put(telegrams, HeartbeatItem(nextId))
    /\ unfinished' = unfinished + 1
    /\ nextId' = nextId + 1
    /\ UNCHANGED <<runPc, hbPc, queue_stopped, interface, started, stopPc, cbs, wire,
                   routed, errors, popped, submitted, stops, stopAt>>
    /\ UNCHANGED notQueue

(***************************************************************************)
(* The consumer.  What handling one item does is a record:                 *)
(*   write   what reached the transport, as a sequence of [id, text]       *)
(*   route   the item's id when process_telegram_incoming took it          *)
(*   err     the exception raised while handling, "none" without one       *)
(*   raised  whether the exception leaves process_telegram                 *)
(***************************************************************************)
Outcome(w, r, e) == [write |-> w, route |-> r, err |-> e, raised |-> FALSE]

\* process_telegram's test: isinstance(telegram, Telegram)
IsIncoming(item) == item.cls = "Telegram"

\* frame.to_teletask() in Client.send: the text, or the exception raised
ToTeletask(item) ==
    CASE item.cls = "TelegramHeartbeat" -> [raises |-> "none", text |-> HeartbeatStr]
      [] item.cls = "Telegram" ->
            IF ChecksumRaises(CalcLength(item.tg))
            THEN [raises |-> "TypeError", text |-> ""]
            ELSE [raises |-> "none",
                  text |-> TelegramFormat(CalcChecksum(CalcLength(item.tg)))]
      [] OTHER -> [raises |-> "AttributeError", text |-> ""]

\* process_telegram_outgoing, send_telegram, Client.send, ClientFactory.send;
\* fail: transport.write raises
ProcessTelegramOutgoing(item, fail) ==
    IF ~interface THEN Outcome(<<>>, <<>>, "none")
    ELSE IF ToTeletask(item).raises # "none"
         THEN Outcome(<<>>, <<>>, ToTeletask(item).raises)
    ELSE IF fail THEN Outcome(<<>>, <<>>, "TransportFailure")
    ELSE Outcome(<<[id |-> item.id, text |-> ToTeletask(item).text]>>, <<>>, "none")

\* process_telegram_incoming: with a listener registered it reads
\* telegram.doip_component, which only a Frame has
ProcessTelegramIncoming(item) ==
    IF cbs # <<>> /\ item.cls # "Frame"
    THEN Outcome(<<>>, <<item.id>>, "AttributeError")
    ELSE IF cbs # <<>> /\ FunctionName(item.fr.doip_component) = "ValueError"
    THEN Outcome(<<>>, <<item.id>>, "ValueError")
    ELSE Outcome(<<>>, <<item.id>>, "none")

\* update_component_state: the device whose change_state it calls, "none"
\* when the name is no key of registered_devices or the lookup raises KeyError
RouteTarget(fr) ==
    LET d == Lookup(registered_devices, FunctionName(fr.doip_component), fr.group_address)
    IN  IF d \in Devices THEN d ELSE "none"

\* What process_telegram_incoming(frame) does to devices and listeners: for
\* every listener, in order, update_component_state and then the listener;
\* nothing when the first update_component_state raises (err).  The device's
\* change_state is RemoteValue.state: only the first of the calls can find
\* the payload different
Deliver(item, err) ==
    LET d == RouteTarget(item.fr)
        n == IF err = "none" THEN Len(cbs) ELSE 0
        value == StateValue(item.fr.state)
    IN  /\ events' = Append(events, [id |-> item.id, fr |-> item.fr, target |-> d])
        /\ heard' = heard \o [k \in 1..n |-> [cb |-> cbs[k], id |-> item.id]]
        /\ IF d = "none" \/ n = 0
           THEN UNCHANGED <<payload, changes, stateCalls>>
           ELSE /\ stateCalls' = stateCalls \o
                        [k \in 1..n |-> [d |-> d, id |-> item.id, state |-> item.fr.state]]
                /\ payload' = [payload EXCEPT ![d] = value]
                /\ changes' = [changes EXCEPT
                                  ![d] = IF Updated(payload[d], value) THEN @ + 1 ELSE @]
        /\ UNCHANGED <<registered_devices, created, brightness_val, ops>>

\* A consumer that takes a failed Telegram's value back from the RemoteValue
\* that set it
EffectsRollback(item, o) ==
    IF o.route # <<>> /\ item.cls = "Frame" THEN Deliver(item, o.err)
    ELSE IF o.err # "none" /\ \E i \in 1..Len(ops) : ops[i].op = "set" /\ ops[i].put = item.id
    THEN LET i == CHOOSE i \in 1..Len(ops) : ops[i].op = "set" /\ ops[i].put = item.id
         IN  /\ payload' = [payload EXCEPT ![ops[i].d] = ops[i].before]
             /\ UNCHANGED <<registered_devices, created, brightness_val, changes,
                            stateCalls, heard, events, ops>>
    ELSE UNCHANGED rvars

\* What process_telegram does to devices and listeners: inbound handling of
\* a Frame reaches them, nothing else does, whether it failed or not
Effects(item, o) ==
    IF o.route # <<>> /\ item.cls = "Frame" THEN Deliver(item, o.err)
    ELSE UNCHANGED rvars

\* The same dispatch without the try: the exception leaves process_telegram
ProcessTelegramNoCatch(item, fail) ==
    LET o == IF IsIncoming(item) THEN ProcessTelegramIncoming(item)
             ELSE ProcessTelegramOutgoing(item, fail)
    IN  [o EXCEPT !.raised = (o.err # "none")]

\* process_telegram: dispatch inside try / except Exception
ProcessTelegram(item, fail) ==
    IF IsIncoming(item) THEN ProcessTelegramIncoming(item)
    ELSE ProcessTelegramOutgoing(item, fail)

\* A loop that never breaks
IsSentinelNever(item) == FALSE

\* run's test: telegram is None
IsSentinel(item) == item.cls = "NoneType"

\* asyncio.Queue.task_done wakes the coroutine waiting in join()
JoinWake(n, pc) == IF n = 0 /\ pc = "join" THEN "woken" ELSE pc

\* TelegramQueue.run: one round of its loop
Run ==
    /\ runPc = "running"
    /\ telegrams # <<>>
    /\ telegrams' = Tail(telegrams)
    /\ popped' = Append(popped, [id |-> Head(telegrams).id, cls |-> Head(telegrams).cls,
                                 function |-> IF Head(telegrams).cls = "Frame"
                                              THEN Head(telegrams).fr.doip_component
                                              ELSE 0])
    /\ IF IsSentinel(Head(telegrams))
       THEN /\ runPc' = "stopped"
            /\ queue_stopped' = TRUE
            /\ UNCHANGED <<unfinished, stopPc, wire, routed, errors>>
            /\ UNCHANGED rvars
       ELSE \E fail \in BOOLEAN :
            LET o == ProcessTelegram(Head(telegrams), fail) IN
            /\ wire' = wire \o o.write
            /\ routed' = routed \o o.route
            /\ errors' = IF o.err = "none" THEN errors
                         ELSE Append(errors, [id |-> Head(telegrams).id, what |-> o.err])
            /\ IF o.raised
               THEN /\ runPc' = "crashed"
                    /\ UNCHANGED <<unfinished, stopPc>>
               ELSE /\ runPc' = runPc
                    /\ unfinished' = unfinished - 1
                    /\ stopPc' = JoinWake(unfinished - 1, stopPc)
            /\ Effects(Head(telegrams), o)
            /\ UNCHANGED queue_stopped
    /\ UNCHANGED <<hbPc, interface, started, cbs, nextId, submitted, stops, stopAt>>
    /\ UNCHANGED notDevices

(***************************************************************************)
(* Teletask.stop: join(); TelegramQueue.stop(); stop the interface.        *)
(***************************************************************************)
\* TelegramQueue.stop from its put on, then the rest of Teletask.stop when
\* queue_stopped is already set
PutSentinel ==
    /\ telegrams' = Put(telegrams, NoneItem(nextId))
    /\ unfinished' = unfinished + 1
    /\ nextId' = nextId + 1
    /\ IF queue_stopped
       THEN /\ stopPc' = "done"
            /\ interface' = FALSE
            /\ started' = FALSE
       ELSE /\ stopPc' = "wait"
            /\ UNCHANGED <<interface, started>>

StopCall ==
    /\ stopPc \in {"idle", "done"}
    /\ stops < MaxStops
    /\ stops' = stops + 1
    /\ stopAt' = [running |-> runPc = "running", queued |-> telegrams # <<>>]
    /\ IF unfinished = 0
       THEN PutSentinel
       ELSE /\ stopPc' = "join"
            /\ UNCHANGED <<telegrams, unfinished, nextId, interface, started>>
    /\ UNCHANGED <<runPc, hbPc, queue_stopped, cbs, wire, routed, errors, popped, submitted>>
    /\ UNCHANGED notQueue

\* join() returned
StopResume ==
    /\ stopPc = "woken"
    /\ PutSentinel
    /\ UNCHANGED <<runPc, hbPc, queue_stopped, cbs, wire, routed, errors, popped,
                   submitted, stops, stopAt>>
    /\ UNCHANGED notQueue

\* queue_stopped.wait() returned
StopFinish ==
    /\ stopPc = "wait"
    /\ queue_stopped
    /\ stopPc' = "done"
    /\ interface' = FALSE
    /\ started' = FALSE
    /\ UNCHANGED <<telegrams, unfinished, runPc, hbPc, queue_stopped, cbs, nextId, wire,
                   routed, errors, popped, submitted, stops, stopAt>>
    /\ UNCHANGED notQueue

Next ==
    \/ RegisterListener
    \/ Start
    \/ CurrentState
    \/ Send
    \/ RegisterFeedback
    \/ TelegramReceived
    \/ StartHeartbeat
    \/ Run
    \/ StopCall
    \/ StopResume
    \/ StopFinish

Spec == Init /\ [][Next]_vars

FairSpec == Spec /\ WF_vars(Run) /\ WF_vars(StopResume) /\ WF_vars(StopFinish)

(***************************************************************************)
(* The owner's calls on a device and its RemoteValue.                      *)
(***************************************************************************)
MaxOps == 3

SetValues == {OFF, ON}
Levels == {50, 150}
RawStates == {OFF, 50, ON}

\* the values the owner passes to set(): on()/off() for a switch, a level for
\* a scaled value
SetArgs(d) == IF d \in Scalings \cup Unbound THEN Levels ELSE SetValues

\* RemoteValueSwitch.to_teletask and RemoteValueScaling.to_teletask
ValueToTeletask(d, value) == IntV(value)

\* Switch(teletask, name, group_address_switch, doip_component): the
\* constructor ends with Teletask.register_device(self)
NewSwitch ==
    \E d \in Devices \ created :
        /\ created' = created \cup {d}
        /\ registered_devices' =
              IF DevComponent(d) \in DOMAIN registered_devices
              THEN DictSet(registered_devices, DevComponent(d),
                           DictSet(registered_devices[DevComponent(d)], DevAddress(d), d))
              ELSE registered_devices
        /\ UNCHANGED <<payload, brightness_val, changes, stateCalls, heard, events, ops>>
        /\ UNCHANGED <<cvars, qvars, dvars, lvars>>

\* RemoteValueScaling(teletask, group_address='2', range_from=0, range_to=100)
NewScaling ==
    \E d \in Scalings \ created :
        /\ created' = created \cup {d}
        /\ UNCHANGED <<registered_devices, payload, brightness_val, changes, stateCalls,
                       heard, events, ops>>
        /\ UNCHANGED <<cvars, qvars, dvars, lvars>>

\* the setting RemoteValue.send() puts in the Telegram when set() calls it:
\* the brightness for a DIMMER, else the default receivedSetting
SendSetting(d, brightness) == IF DevComponent(d) = "DIMMER" THEN brightness ELSE TOGGLE

\* RemoteValue.set(value), as on() and off() call it: it returns at once when
\* the value is not initialized; else it stores the payload and brightness_val,
\* calls send(), where TelegramFunction[doip_component] may raise KeyError, and
\* then the callback
Set ==
    \E d \in created : \E value \in SetArgs(d) :
        /\ Len(ops) < MaxOps
        /\ IF ~Initialized(DevAddress(d))
           THEN /\ ops' = Append(ops, [op |-> "set", d |-> d, arg |-> value,
                                       before |-> payload[d], fired |-> FALSE,
                                       put |-> 0, raised |-> "none"])
                /\ UNCHANGED <<payload, brightness_val, changes>>
                /\ UNCHANGED <<qvars, notDevices>>
           ELSE IF ~KnownFunction(DevComponent(d))
           THEN /\ payload' = [payload EXCEPT ![d] = ValueToTeletask(d, value)]
                /\ brightness_val' = [brightness_val EXCEPT ![d] = value]
                /\ ops' = Append(ops, [op |-> "set", d |-> d, arg |-> value,
                                       before |-> payload[d], fired |-> FALSE,
                                       put |-> 0, raised |-> "KeyError"])
                /\ UNCHANGED changes
                /\ UNCHANGED <<qvars, notDevices>>
           ELSE /\ payload' = [payload EXCEPT ![d] = ValueToTeletask(d, value)]
                /\ brightness_val' = [brightness_val EXCEPT ![d] = value]
                /\ Submit([command |-> "SET",
                           function |-> IntV(FunctionCode(DevComponent(d))),
                           address |-> IntV(DevAddress(d).v),
                           setting |-> IntV(SendSetting(d, value))])
                /\ changes' = [changes EXCEPT
                                  ![d] = IF Updated(payload[d], ValueToTeletask(d, value))
                                         THEN @ + 1 ELSE @]
                /\ ops' = Append(ops, [op |-> "set", d |-> d, arg |-> value,
                                       before |-> payload[d],
                                       fired |-> Updated(payload[d],
                                                         ValueToTeletask(d, value)),
                                       put |-> nextId, raised |-> "none"])
        /\ UNCHANGED <<registered_devices, created, stateCalls, heard, events>>

\* Switch.change_state(value): RemoteValue.state(raw_value)
ChangeState ==
    \E d \in created \cap Devices, raw_value \in RawStates :
        /\ Len(ops) < MaxOps
        /\ payload' = [payload EXCEPT ![d] = StateValue(raw_value)]
        /\ changes' = [changes EXCEPT
                          ![d] = IF Updated(payload[d], StateValue(raw_value))
                                 THEN @ + 1 ELSE @]
        /\ ops' = Append(ops, [op |-> "state", d |-> d, arg |-> raw_value,
                               before |-> payload[d],
                               fired |-> Updated(payload[d], StateValue(raw_value)),
                               put |-> 0, raised |-> "none"])
        /\ UNCHANGED <<registered_devices, created, brightness_val, stateCalls, heard,
                       events>>
        /\ UNCHANGED <<cvars, qvars, dvars, lvars>>

\* A current_state that also takes the requested state as read
CurrentStateOfAssuming ==
    \E d \in created :
        /\ Len(ops) < MaxOps
        /\ Submit([command |-> "GET", function |-> IntV(FunctionCode(DevComponent(d))),
                   address |-> IntV(DevAddress(d).v), setting |-> NoneV])
        /\ payload' = [payload EXCEPT ![d] = IntV(OFF)]
        /\ ops' = Append(ops, [op |-> "get", d |-> d, arg |-> 0, before |-> payload[d],
                               fired |-> FALSE, put |-> nextId, raised |-> "none"])
        /\ UNCHANGED <<registered_devices, created, brightness_val, changes, stateCalls,
                       heard, events>>

\* RemoteValue.current_state of a created device's value (Switch.current_state),
\* for the values it does not raise on
CurrentStateOf ==
    \E d \in created :
        /\ Len(ops) < MaxOps
        /\ Initialized(DevAddress(d))
        /\ KnownFunction(DevComponent(d))
        /\ Submit([command |-> "GET", function |-> IntV(FunctionCode(DevComponent(d))),
                   address |-> IntV(DevAddress(d).v), setting |-> NoneV])
        /\ ops' = Append(ops, [op |-> "get", d |-> d, arg |-> 0, before |-> payload[d],
                               fired |-> FALSE, put |-> nextId, raised |-> "none"])
        /\ UNCHANGED <<registered_devices, created, payload, brightness_val, changes,
                       stateCalls, heard, events>>

RemoteValueNext ==
    \/ NewSwitch
    \/ NewScaling
    \/ Set
    \/ ChangeState
    \/ CurrentStateOf

RemoteValueSpec == Init /\ [][RemoteValueNext]_vars

(***************************************************************************)
(* The owner's set calls on values that are not bound or name no function. *)
(***************************************************************************)
\* RemoteValueScaling(teletask, group_address=None) and
\* RemoteValueSwitch(teletask, group_address='1', doip_component="LAMP")
NewOther ==
    \E d \in (Unbound \cup Misnamed) \ created :
        /\ created' = created \cup {d}
        /\ UNCHANGED <<registered_devices, payload, brightness_val, changes, stateCalls,
                       heard, events, ops>>
        /\ UNCHANGED <<cvars, qvars, dvars, lvars>>

MisuseNext ==
    \/ NewSwitch
    \/ NewOther
    \/ Set

MisuseSpec == Init /\ [][MisuseNext]_vars

(***************************************************************************)
(* The owner's set calls with the consumer running.                        *)
(***************************************************************************)
DeviceNext ==
    \/ RegisterListener
    \/ Start
    \/ NewSwitch
    \/ NewScaling
    \/ Set
    \/ Run

DeviceSpec == Init /\ [][DeviceNext]_vars

(***************************************************************************)
(* Routing.  process_telegram_incoming called with a decoded Frame.        *)
(***************************************************************************)
RouteAddresses == {1, 3}
RouteStates == {OFF, ON}

ProcessTelegramIncomingCall ==
    /\ nextId <= MaxItems
    /\ \E f \in FrameFunctions, g \in RouteAddresses, st \in RouteStates :
        LET item == FrameItem(nextId, [doip_component |-> f, group_address |-> g,
                                       state |-> st])
            o == ProcessTelegramIncoming(item)
        IN  /\ routed' = routed \o o.route
            /\ errors' = IF o.err = "none" THEN errors
                         ELSE Append(errors, [id |-> item.id, what |-> o.err])
            /\ Deliver(item, o.err)
    /\ nextId' = nextId + 1
    /\ UNCHANGED <<telegrams, unfinished, runPc, hbPc, queue_stopped, interface, started,
                   stopPc, cbs, wire, popped, submitted, stops, stopAt>>
    /\ UNCHANGED notDevices

RouteNext ==
    \/ RegisterListener
    \/ RegisterFeedback
    \/ NewSwitch
    \/ ProcessTelegramIncomingCall

RouteSpec == Init /\ [][RouteNext]_vars

(***************************************************************************)
(* Listeners.  Registering and unregistering listeners between Frames.     *)
(***************************************************************************)
ListenerNext ==
    \/ RegisterListener
    \/ UnregisterListener
    \/ ProcessTelegramIncomingCall

ListenerSpec == Init /\ [][ListenerNext]_vars

(***************************************************************************)
(* The receive path.  The peer sends runs of bytes; TCP hands a buffer of  *)
(* them to ClientFactory.data_received, which calls                        *)
(* Client.data_received_callback with that buffer alone: every call makes  *)
(* a new FrameQueue and nothing is kept between calls.                     *)
(***************************************************************************)
MaxRuns == 3

RunKinds ==
    {[kind |-> "wellformed", toks |-> WellFormedRun(RELAY, 3, ON)],
     [kind |-> "wellformed", toks |-> WellFormedRun(DIMMER, 4, OFF)],
     [kind |-> "short", toks |-> <<2, 9, 16, 1, 1>>],
     [kind |-> "short", toks |-> <<2, 9, 16, 1, 1, 0, 3, 0>>],
     [kind |-> "noheader", toks |-> <<1, 9, 16, 1, 1, 0, 3, 0, 255>>],
     [kind |-> "noheader", toks |-> <<12, 9, 16, 1, 1, 0, 3, 0, 255>>],
     [kind |-> "noise", toks |-> <<7>>]}

\* the buffer being assembled ends inside a run: the transport will hand the
\* rest of that run to the next call of data_received
HeadPending == runs # <<>> /\ runs[Len(runs)].kind = "head"

\* the peer's next run arrives in the same buffer
Arrive ==
    /\ decodePc = "recv"
    /\ Len(runs) < MaxRuns
    /\ ~HeadPending
    /\ \E r \in RunKinds :
        /\ raw' = raw \o r.toks
        /\ runs' = Append(runs, [kind |-> r.kind, at |-> Len(raw) + 1, toks |-> r.toks,
                                 rest |-> <<>>])
    /\ UNCHANGED <<frames, decodePc, carried>>
    /\ UNCHANGED notDecoder

\* ClientFactory.data_received is called with what the TCP transport read:
\* a well-formed run is cut after its first k bytes (the buffers enumerated
\* are those that hold nothing before the cut run)
ArriveSplit ==
    /\ decodePc = "recv"
    /\ runs = <<>>
    /\ \E r \in RunKinds :
        /\ r.kind = "wellformed"
        /\ \E k \in 1..(Len(r.toks) - 1) :
            /\ raw' = raw \o SubSeq(r.toks, 1, k)
            /\ runs' = Append(runs, [kind |-> "head", at |-> Len(raw) + 1,
                                     toks |-> SubSeq(r.toks, 1, k),
                                     rest |-> SubSeq(r.toks, k + 1, Len(r.toks))])
    /\ UNCHANGED <<frames, decodePc, carried>>
    /\ UNCHANGED notDecoder

\* Client.data_received_callback(raw), up to the list process_frames returns
DataReceivedCallback ==
    /\ decodePc = "recv"
    /\ raw # <<>>
    /\ frames' = ProcessFrames(raw)
    /\ decodePc' = "decoded"
    /\ UNCHANGED <<raw, runs, carried>>
    /\ UNCHANGED notDecoder

\* the next call of data_received builds a new FrameQueue: nothing of the
\* previous buffer is kept; the bytes it gets start with the rest of the run
\* the previous buffer ended in
NextBuffer ==
    /\ decodePc = "decoded"
    /\ IF HeadPending
       THEN /\ raw' = runs[Len(runs)].rest
            /\ runs' = <<[kind |-> "tail", at |-> 1, toks |-> runs[Len(runs)].rest,
                          rest |-> <<>>]>>
            /\ carried' = [raw |-> raw, frames |-> frames]
       ELSE /\ raw' = <<>>
            /\ runs' = <<>>
            /\ carried' = NothingCarried
    /\ frames' = <<>>
    /\ decodePc' = "recv"
    /\ UNCHANGED notDecoder

DecoderNext ==
    \/ Arrive
    \/ ArriveSplit
    \/ DataReceivedCallback
    \/ NextBuffer

DecoderSpec == Init /\ [][DecoderNext]_vars

(***************************************************************************)
(* Observations used by the properties.                                    *)
(***************************************************************************)
WireIds == {wire[i].id : i \in 1..Len(wire)}
RoutedIds == {routed[i] : i \in 1..Len(routed)}
PoppedIds == Ids(popped)
QueuedIds == Ids(telegrams)
SubmittedIds == Ids(submitted)
TimesWritten(id) == Cardinality({i \in 1..Len(wire) : wire[i].id = id})
TransportFailed(id) ==
    \E i \in 1..Len(errors) : errors[i].id = id /\ errors[i].what = "TransportFailure"
SentinelPopped == \E i \in 1..Len(popped) : popped[i].cls = "NoneType"
SentinelsPopped == Cardinality({i \in 1..Len(popped) : popped[i].cls = "NoneType"})

RECURSIVE IdSeq(_)
IdSeq(s) == IF s = <<>> THEN <<>> ELSE <<Head(s).id>> \o IdSeq(Tail(s))

(***************************************************************************)
(* C1.  Every non-sentinel item the consumer popped was dispatched by its  *)
(* kind: a Telegram (outbound Command) was written to the transport        *)
(* exactly once (unless the transport write itself failed) and was not     *)
(* handed to inbound routing; a Frame (inbound Event) was handed to        *)
(* inbound routing and was not written to the transport.                   *)
(***************************************************************************)
C1_DispatchByKind ==
    \A i \in 1..Len(popped) :
        /\ popped[i].cls = "Telegram" =>
              /\ popped[i].id \notin RoutedIds
              /\ TransportFailed(popped[i].id) \/ TimesWritten(popped[i].id) = 1
        /\ popped[i].cls = "Frame" =>
              /\ popped[i].id \in RoutedIds
              /\ popped[i].id \notin WireIds

(***************************************************************************)
(* C2.  The Commands submitted while the queue is running are written to   *)
(* the transport in submission order: the Commands on the wire, in wire    *)
(* order, are exactly the popped Commands (less those whose transport      *)
(* write failed), in submission order; heartbeats written between them do  *)
(* not count.                                                              *)
(***************************************************************************)
C2_SubmissionOrder ==
    LET IsCommandWrite(w) == w.id \in SubmittedIds
        IsHandledCommand(x) ==
            /\ x.id \in PoppedIds
            /\ x.phase = "running"
            /\ ~TransportFailed(x.id)
        SubmittedRunning(w) ==
            \E k \in 1..Len(submitted) : submitted[k].id = w.id /\ submitted[k].phase = "running"
    IN  IdSeq(SelectSeq(SelectSeq(wire, IsCommandWrite), SubmittedRunning))
            = IdSeq(SelectSeq(submitted, IsHandledCommand))

(***************************************************************************)
(* C3.  Whenever Teletask.stop is in progress while the consumer task is   *)
(* running, stop eventually returns, whatever is queued (fair scheduling   *)
(* of the consumer and of the stopping coroutine).                         *)
(***************************************************************************)
C3_StopReturns ==
    (stopPc \in {"join", "woken", "wait"} /\ runPc = "running") ~> (stopPc = "done")

\* stop was called on a running queue holding items, and has returned, after
\* a Command, an Event and a heartbeat were taken from the queue
C3_Witness ==
    /\ stopPc = "done"
    /\ stopAt.running
    /\ stopAt.queued
    /\ \E i, j, k \in 1..Len(popped) :
          /\ popped[i].cls = "Telegram"
          /\ popped[j].cls = "Frame"
          /\ popped[k].cls = "TelegramHeartbeat"

(***************************************************************************)
(* C4.  When stop has returned, the consumer has taken the sentinel and    *)
(* exited, and every item put before the sentinel has been processed:      *)
(* Commands and heartbeats written to the transport (unless the write      *)
(* itself failed), Events routed.                                          *)
(***************************************************************************)
C4_GracefulDrain ==
    stopPc = "done" =>
        /\ runPc = "stopped"
        /\ SentinelPopped
        /\ \A i \in 1..Len(popped) :
              /\ popped[i].cls \in {"Telegram", "TelegramHeartbeat"} =>
                    TransportFailed(popped[i].id) \/ popped[i].id \in WireIds
              /\ popped[i].cls = "Frame" => popped[i].id \in RoutedIds

(***************************************************************************)
(* C5.  An exception while handling one item is caught and logged and      *)
(* costs that item only: the consumer task never dies of it, it ends only  *)
(* by taking the sentinel, and every item it took, failed or not, was      *)
(* marked done, so the items after a failed one are taken in turn.         *)
(***************************************************************************)
C5_FailureIsolated ==
    /\ runPc \in {"idle", "running", "stopped"}
    /\ runPc = "stopped" <=> SentinelPopped
    /\ \A i \in 1..Len(errors) : errors[i].id \in PoppedIds
    /\ unfinished = Len(telegrams) + SentinelsPopped

\* an item failed and an item put after it was then written to the transport
C5_Witness ==
    \E i \in 1..Len(errors), j \in 1..Len(wire) :
        /\ wire[j].id > errors[i].id
        /\ \E k \in 1..Len(errors) : errors[k].what = "TransportFailure"
        /\ \E k \in 1..Len(errors) : errors[k].what = "AttributeError"

WellFormed(a) ==
    /\ a.function.t = "int"
    /\ CASE a.command = "LOG" -> a.address.t = "None" /\ a.setting.t = "None"
         [] a.command = "GET" -> a.address.t = "int" /\ a.setting.t = "None"
         [] a.command = "SET" -> a.setting.t = "None" \/ a.address.t = "int"
         [] OTHER -> FALSE

\* The payload table of the specification
ExpectedPayload(a) ==
    CASE a.command = "LOG" -> <<a.function, IntV(1)>>
      [] a.command = "GET" -> <<IntV(1), a.function, IntV(0), a.address>>
      [] a.command = "SET" /\ a.setting.t = "None" -> <<IntV(1), a.function>>
      [] OTHER -> <<IntV(1), a.function, IntV(0), a.address, a.setting>>

ExpectedChecksum(p, code) == (SumValues(p) + 2 + (Len(p) + 3) + code) % 256

\* every number preceded by a comma
RECURSIVE CommaFields(_)
CommaFields(ns) ==
    IF ns = <<>> THEN "" ELSE "," \o ToString(Head(ns)) \o CommaFields(Tail(ns))

ExpectedText(p, code) ==
    "s" \o CommaFields(<<Len(p) + 3, code>> \o [i \in 1..Len(p) |-> p[i].v]
                       \o <<ExpectedChecksum(p, code)>>) \o ","

(***************************************************************************)
(* C7.  Encoding any well-formed Command succeeds, and the checksum it     *)
(* computes is (sum(P) + 2 + (len(P) + 3) + commandCode) mod 256, a value  *)
(* in 0..255.                                                              *)
(***************************************************************************)
C7_ChecksumLaw ==
    (enc # "none" /\ WellFormed(args)) =>
        /\ enc = "text"
        /\ tg.checksum = ExpectedChecksum(tg.payload, CommandValue(args.command))
        /\ tg.checksum \in 0..255

(***************************************************************************)
(* C8.  The text str(telegram) returns is 's', the length, the command     *)
(* code, each payload field in order and the checksum, as decimal numbers  *)
(* separated by commas, with one trailing comma; the length is the number  *)
(* of payload fields plus 3; the start marker is not one of the fields.    *)
(***************************************************************************)
C8_FrameText ==
    enc = "text" =>
        /\ AllInts(tg.payload)
        /\ txt = ExpectedText(tg.payload, CommandValue(args.command))

\* Log for RELAY was encoded
C8_Witness ==
    /\ enc = "text"
    /\ args.command = "LOG"
    /\ args.function = IntV(RELAY)
    /\ txt = "s,5,3,1,1,12,"

(***************************************************************************)
(* C9.  The payload fields of an encoded well-formed Command are those of  *)
(* its kind: Log [function, 1]; Get [1, function, 0, address]; bare Set    *)
(* [1, function]; Set with a setting [1, function, 0, address, setting];   *)
(* and Set RELAY(1), address 1, ON(255) gives 's,8,7,1,1,0,1,255,19,'.     *)
(***************************************************************************)
C9_PayloadByKind ==
    (enc # "none" /\ WellFormed(args)) =>
        /\ enc = "text"
        /\ tg.payload = ExpectedPayload(args)
        /\ (/\ args.command = "SET"
            /\ args.function = IntV(RELAY)
            /\ args.address = IntV(1)
            /\ args.setting = IntV(ON)) => txt = "s,8,7,1,1,0,1,255,19,"

(***************************************************************************)
(* C10.  Every encoding of the heartbeat gives 's,3,11,16,': length 3,     *)
(* command code 11, no payload, checksum (2 + 3 + 11) mod 256 = 16.        *)
(***************************************************************************)
C10_KeepAliveText ==
    hbcalls > 0 => hbtxt = "s,3,11,16,"

\* the heartbeat was encoded twice
C10_Witness ==
    /\ hbcalls >= 2
    /\ hbtxt = "s,3,11,16,"

(***************************************************************************)
(* C11.  Keep-alives are produced only while the queue is running: none is *)
(* enqueued before start, and once stop() has returned no step adds a      *)
(* keep-alive to the queue.                                                *)
(***************************************************************************)
HeartbeatsQueued == Cardinality({i \in 1..Len(telegrams) : telegrams[i].cls = "TelegramHeartbeat"})

C11_KeepAliveOnlyWhileRunning ==
    [][/\ runPc = "idle" => HeartbeatsQueued' = HeartbeatsQueued
       /\ stopPc = "done" => HeartbeatsQueued' <= HeartbeatsQueued]_vars

(***************************************************************************)
(* What the runs of a buffer should decode to: one Event per well-formed   *)
(* run, in the order sent, with function, address and state the tokens 4,  *)
(* 6 and 8 (from 0) of the run.                                            *)
(***************************************************************************)
EventOf(toks) == [doip_component |-> toks[5], group_address |-> toks[7], state |-> toks[9]]

IsWellFormedRun(r) == r.kind = "wellformed"
IsMalformedRun(r) == r.kind \in {"short", "noheader"}

ExpectedEvents(rs) ==
    LET ws == SelectSeq(rs, IsWellFormedRun)
    IN  [k \in 1..Len(ws) |-> EventOf(ws[k].toks)]

RECURSIVE IsSubSeq(_, _)
IsSubSeq(a, b) ==
    IF a = <<>> THEN TRUE
    ELSE IF b = <<>> THEN FALSE
    ELSE IF Head(a) = Head(b) THEN IsSubSeq(Tail(a), Tail(b))
    ELSE IsSubSeq(a, Tail(b))

C13_OneEventPerRun ==
    decodePc = "decoded" => frames = ExpectedEvents(runs)

(***************************************************************************)
(* C14.  A malformed or short run does not disturb its neighbours: in a    *)
(* buffer that holds such a run (and no two well-formed runs back to       *)
(* back), every well-formed run still yields its own Event, so the Events  *)
(* expected of the well-formed runs appear, in order, among those returned.*)
(***************************************************************************)
C14_MalformedIsolated ==
    (/\ decodePc = "decoded"
     /\ \E k \in 1..Len(runs) : IsMalformedRun(runs[k])
     /\ \A k \in 1..(Len(runs) - 1) :
            ~(IsWellFormedRun(runs[k]) /\ IsWellFormedRun(runs[k + 1])))
        => IsSubSeq(ExpectedEvents(runs), frames)

(***************************************************************************)
(* C15.  Inbound payloads applied to a Remote Value: an apply that finds   *)
(* the payload unset invokes onChange; of two applies in a row the second  *)
(* invokes onChange exactly when its wire payload differs from the first's.*)
(***************************************************************************)
\* the call made on the same Remote Value before call i, 0 when i is its first
PrevOp(i) ==
    LET earlier == {j \in 1..(i - 1) : ops[j].d = ops[i].d}
    IN  IF earlier = {} THEN 0 ELSE CHOOSE j \in earlier : \A k \in earlier : k <= j

C15_ApplyDedup ==
    \A i \in 1..Len(ops) :
        ops[i].op = "state" =>
            /\ ops[i].before = NoneV => ops[i].fired
            /\ (PrevOp(i) > 0 /\ ops[PrevOp(i)].op = "state") =>
                  (ops[i].fired <=> ops[PrevOp(i)].arg # ops[i].arg)

(***************************************************************************)
(* C16.  Across set calls and inbound applies onChange fires at most once  *)
(* per value transition: a call that finds the Remote Value already        *)
(* holding the value it brings (set(ON) then an inbound 255, set(OFF) then *)
(* an inbound 0) does not invoke onChange.                                 *)
(***************************************************************************)
C16_OncePerTransition ==
    \A i \in 1..Len(ops) :
        (ops[i].before # NoneV /\ ops[i].before.v = ops[i].arg) => ~ops[i].fired

(***************************************************************************)
(* C17.  In a sequence of set calls on a bound Remote Value every call     *)
(* hands exactly one Set Telegram to the queue, changed value or not, and  *)
(* invokes onChange exactly when it is the first call on that Remote Value *)
(* or its value differs from the previous call's: two set(ON) give two     *)
(* Sets and one onChange.                                                  *)
(***************************************************************************)
OnlySets == \A i \in 1..Len(ops) : ops[i].op = "set"

StateCallsFor(id) == Cardinality({k \in 1..Len(stateCalls) : stateCalls[k].id = id})

C18_RoutedOnce ==
    \A i \in 1..Len(events) :
        events[i].target # "none" => StateCallsFor(events[i].id) = 1

(***************************************************************************)
(* C19.  Routing an Event whose (function, address) has no registered      *)
(* device raises nothing and calls no device method: the step that handles *)
(* it leaves the error log, the registry and every Remote Value unchanged. *)
(* (An Event whose function byte names no function at all is the           *)
(* resolution failure of C30: it is logged, and changes nothing either.)   *)
(***************************************************************************)
NoDeviceFor(fr) ==
    \A d \in created :
        ~(/\ FunctionCode(DevComponent(d)) = fr.doip_component
          /\ DevAddress(d).v = fr.group_address)

C20_ListenerFanOut ==
    [][(/\ Len(popped') = Len(popped) + 1
        /\ popped'[Len(popped')].cls = "Frame")
        => heard' = heard \o [k \in 1..Len(cbs) |->
                                 [cb |-> cbs[k], id |-> popped'[Len(popped')].id]]]_vars

(***************************************************************************)
(* C21.  At most one device owns a (function, address) key: constructing a *)
(* device under a key that is already taken does not replace the device    *)
(* the registry holds under that key.                                      *)
(***************************************************************************)
C21_FirstRegistrationWins ==
    [][created' # created =>
          \A name \in DOMAIN registered_devices :
              \A key \in DOMAIN registered_devices[name] :
                  registered_devices'[name][key] = registered_devices[name][key]]_vars

(***************************************************************************)
(* C22.  Only the consumer writes to the transport, one write at a time:   *)
(* a step writes at most one text, the step that writes is the consumer    *)
(* taking the item it writes from the head of the queue, and a step that   *)
(* enqueues (set, current_state, register_feedback, the heartbeat, the     *)
(* transport reader, stop) writes nothing.                                 *)
(***************************************************************************)
C22_SingleWriter ==
    [][/\ wire' # wire =>
            /\ runPc = "running"
            /\ telegrams # <<>>
            /\ telegrams' = Tail(telegrams)
            /\ Len(wire') = Len(wire) + 1
            /\ SubSeq(wire', 1, Len(wire)) = wire
            /\ wire'[Len(wire')].id = Head(telegrams).id
       /\ Len(telegrams') > Len(telegrams) => wire' = wire]_vars

\* the consumer has written twice while a device's Telegram was submitted
C22_Witness ==
    /\ Len(wire) >= 2
    /\ submitted # <<>>

(***************************************************************************)
(* C23.  Inbound Events are handled in arrival order: the Frames handed to *)
(* inbound handling, in handling order, are the Frames the consumer took   *)
(* from the queue, which are in the order the reader put them (ids grow in *)
(* arrival order).                                                         *)
(***************************************************************************)
PoppedFrames ==
    LET IsFrame(x) == x.cls = "Frame"
    IN  IdSeq(SelectSeq(popped, IsFrame))

RoutedFrames ==
    LET IsFrameId(id) == \E i \in 1..Len(popped) : popped[i].id = id /\ popped[i].cls = "Frame"
    IN  SelectSeq(routed, IsFrameId)

C23_ArrivalOrder ==
    /\ \A i, j \in 1..Len(PoppedFrames) : i < j => PoppedFrames[i] < PoppedFrames[j]
    /\ RoutedFrames = PoppedFrames

(***************************************************************************)
(* C24.  A GET or SET Telegram constructed without a function is refused   *)
(* at construction with the protocol exception: no Telegram object exists  *)
(* afterwards, so the missing function is in no payload field and nothing  *)
(* can be encoded or queued.                                               *)
(***************************************************************************)
C24_FunctionRequired ==
    (ctor # "none" /\ args.command \in {"GET", "SET"} /\ args.function = NoneV)
        => /\ ctor = "CouldNotParseTeletaskCommand"
           /\ tg = NoTelegram
           /\ enc = "none"

(***************************************************************************)
(* C26.  Encoding does not change the Telegram: after str(telegram) the    *)
(* object still equals a Telegram constructed from the same arguments.     *)
(***************************************************************************)
C26_EncodingPure ==
    enc # "none" => tg = TelegramNew(args)

(***************************************************************************)
(* C25.  set(v) with a value outside the Remote Value's declared range (a  *)
(* level outside 0..100 on the scaled kind) raises DeviceIllegalValue      *)
(* before anything is queued and leaves the payload as it was.             *)
(***************************************************************************)
OutOfRange(i) ==
    /\ ops[i].op = "set"
    /\ ops[i].d \in Scalings
    /\ ops[i].arg \notin RangeFrom..RangeTo

C25_RangeChecked ==
    /\ \A i \in 1..Len(ops) :
          OutOfRange(i) =>
              /\ ops[i].raised = "DeviceIllegalValue"
              /\ ops[i].put \notin SubmittedIds
              /\ ~ops[i].fired
    /\ \A d \in Scalings :
          (payload[d] # NoneV /\ payload[d].t = "int") => payload[d].v \in RangeFrom..RangeTo

(***************************************************************************)
(* C29.  current_state() on a bound Remote Value puts exactly one GET      *)
(* Telegram for the value's (function, address) on the queue in the call   *)
(* itself and changes neither the payload nor the number of onChange       *)
(* calls of any Remote Value.                                              *)
(***************************************************************************)
IsGetCall ==
    /\ Len(ops') = Len(ops) + 1
    /\ ops'[Len(ops')].op = "get"

Differs(i) == ops[i].before = NoneV \/ ops[i].before # ValueToTeletask(ops[i].d, ops[i].arg)

TakenSets(d) ==
    {i \in 1..Len(ops) : /\ ops[i].op = "set"
                         /\ ops[i].d = d
                         /\ ops[i].put \in PoppedIds \cup WireIds}

IsLastOp(i) == \A j \in (i + 1)..Len(ops) : ops[j].d # ops[i].d

C27_NotifiedBeforeWrite ==
    \A d \in RemoteValues :
        /\ changes[d] >= Cardinality({i \in TakenSets(d) : Differs(i)})
        /\ \A i \in TakenSets(d) :
              /\ Differs(i) => ops[i].fired
              /\ IsLastOp(i) => payload[d] = ValueToTeletask(d, ops[i].arg)

\* the consumer has taken the Set Telegram of a set that changed the value
C27_Witness ==
    \E d \in Devices : \E i \in TakenSets(d) :
        /\ Differs(i)
        /\ ops[i].fired
        /\ changes[d] = 1
        /\ payload[d] = IntV(ops[i].arg)

(***************************************************************************)
(* C28.  The local update of set(v) is optimistic: when the consumer later *)
(* fails on the queued Set Telegram, the failure is only logged: the       *)
(* payloads stay, onChange is not invoked again and the consumer keeps     *)
(* running.                                                                *)
(***************************************************************************)
TakesSet ==
    /\ telegrams # <<>>
    /\ telegrams' = Tail(telegrams)
    /\ \E i \in 1..Len(ops) : ops[i].op = "set" /\ ops[i].put = Head(telegrams).id

C28_OptimisticUpdate ==
    [][(TakesSet /\ Len(errors') > Len(errors)) =>
          /\ payload' = payload
          /\ changes' = changes
          /\ runPc' = runPc
          /\ errors'[Len(errors')].id = Head(telegrams).id]_vars

\* the consumer failed on the Set Telegram of set(ON); the value is still ON
\* and onChange has been invoked once
C28_Witness ==
    \E i \in 1..Len(ops) :
        /\ ops[i].op = "set"
        /\ ops[i].arg = ON
        /\ \E k \in 1..Len(errors) : errors[k].id = ops[i].put
        /\ IsLastOp(i)
        /\ payload[ops[i].d] = IntV(ON)
        /\ changes[ops[i].d] = 1

(***************************************************************************)
(* C30.  An inbound Frame whose function byte is no TelegramFunction is    *)
(* not fatal: the round of the consumer that takes it calls no device      *)
(* method and no listener, changes no Remote Value, logs the failure when  *)
(* the interface is up, marks the item done and leaves the consumer        *)
(* running.                                                                *)
(***************************************************************************)
TakesUnknownFrame ==
    /\ telegrams # <<>>
    /\ telegrams' = Tail(telegrams)
    /\ Head(telegrams).cls = "Frame"
    /\ FunctionName(Head(telegrams).fr.doip_component) = "ValueError"

C30_UnknownFunctionDropped ==
    [][TakesUnknownFrame =>
          /\ stateCalls' = stateCalls
          /\ heard' = heard
          /\ payload' = payload
          /\ changes' = changes
          /\ wire' = wire
          /\ runPc' = "running"
          /\ unfinished' = unfinished - 1
          /\ interface =>
                /\ Len(errors') = Len(errors) + 1
                /\ errors'[Len(errors')].id = Head(telegrams).id]_vars

\* the consumer took a Frame with the unknown function byte, logged it and
\* then handled a later item
C30_Witness ==
    \E i, j \in 1..Len(popped) :
        /\ i < j
        /\ popped[i].cls = "Frame"
        /\ FunctionName(popped[i].function) = "ValueError"
        /\ \E k \in 1..Len(errors) : errors[k].id = popped[i].id
        /\ popped[j].id \in WireIds

(***************************************************************************)
(* C31.  unregister_telegram_received_cb called with a function that was   *)
(* registered raises nothing, and that listener is called for no Event     *)
(* handled afterwards.                                                     *)
(***************************************************************************)
C31_Unregister ==
    \A u \in 1..Len(unregs) :
        unregs[u].arg = "function" =>
            /\ unregs[u].raised = "none"
            /\ \A h \in 1..Len(heard) :
                  heard[h].cb = unregs[u].cb => heard[h].id < unregs[u].at

(***************************************************************************)
(* C32.  The SET Telegram a set(v) call queues carries v as its setting:   *)
(* 255 for on(), 0 for off(), the level for a scaled value.                *)
(***************************************************************************)
SettingOf(id) ==
    LET k == CHOOSE k \in 1..Len(telegrams) : telegrams[k].id = id
    IN  telegrams[k].tg.payload[5]

C32_SettingIsValue ==
    \A i \in 1..Len(ops) :
        (ops[i].op = "set" /\ ops[i].put \in Ids(telegrams)) =>
            SettingOf(ops[i].put) = ValueToTeletask(ops[i].d, ops[i].arg)

(***************************************************************************)
(* C33.  The on/off state a device reports follows its last state change   *)
(* from either side: True after set_on() and after an inbound 255, False   *)
(* after set_off() and after an inbound 0.                                 *)
(***************************************************************************)
\* Switch.state: self.switch.value == RemoteValueSwitch.Value.ON, where value
\* is from_teletask(payload), the payload itself
DeviceState(d) == payload[d] = ValueMember(ON)

C33_StateFollowsLastChange ==
    \A i \in 1..Len(ops) :
        (ops[i].d \in Devices /\ IsLastOp(i) /\ ops[i].op \in {"set", "state"}) =>
            (DeviceState(ops[i].d) <=> ops[i].arg = ON)

(***************************************************************************)
(* C34.  Once a device has been constructed (and so register_device called *)
(* for it) with function F and address A, the routing of a later Frame     *)
(* with function F and address A finds a device registered for (F, A),     *)
(* whatever the order of register_feedback and the construction.           *)
(***************************************************************************)
DevicesFor(fr) ==
    {d \in created \cap Devices : /\ FunctionCode(DevComponent(d)) = fr.doip_component
                                  /\ DevAddress(d).v = fr.group_address}

C34_RegisteredIsRouted ==
    [][(/\ Len(events') = Len(events) + 1
        /\ DevicesFor(events'[Len(events')].fr) # {})
        => events'[Len(events')].target \in DevicesFor(events'[Len(events')].fr)]_vars

(***************************************************************************)
(* C36.  The header is matched on whole tokens: every Event the decoder    *)
(* returns was extracted at three consecutive tokens that are exactly 2, 9 *)
(* and 16, so 12,9,16,... yields none.                                     *)
(***************************************************************************)
C36_WholeTokenHeader ==
    decodePc = "decoded" =>
        \A m \in 1..Len(FindAll(raw, 1)) :
            ~FindAll(raw, 1)[m].frame.none =>
                /\ raw[FindAll(raw, 1)[m].at] = 2
                /\ raw[FindAll(raw, 1)[m].at + 1] = 9
                /\ raw[FindAll(raw, 1)[m].at + 2] = 16

(***************************************************************************)
(* C35.  A well-formed run whose bytes arrive split across two consecutive *)
(* calls of data_received is decoded into exactly one Event, the Event the *)
(* same bytes give when they arrive in one call.                           *)
(***************************************************************************)
SplitRunDecoded ==
    /\ decodePc = "decoded"
    /\ Len(runs) = 1
    /\ runs[1].kind = "tail"
    /\ carried.raw \o raw \in {r.toks : r \in {x \in RunKinds : x.kind = "wellformed"}}

C35_SplitRun ==
    SplitRunDecoded =>
        /\ carried.frames \o frames = ProcessFrames(carried.raw \o raw)
        /\ Len(carried.frames \o frames) = 1

(***************************************************************************)
(* C37.  set(v) on a Remote Value without a group address does nothing:    *)
(* the call puts nothing on the queue and leaves every payload,            *)
(* brightness_val and onChange count as they were.                         *)
(***************************************************************************)
IsSetOnUnbound ==
    /\ Len(ops') = Len(ops) + 1
    /\ ops'[Len(ops')].op = "set"
    /\ ops'[Len(ops')].d \in Unbound

C37_UnboundSetNoOp ==
    [][IsSetOnUnbound =>
          /\ telegrams' = telegrams
          /\ unfinished' = unfinished
          /\ payload' = payload
          /\ brightness_val' = brightness_val
          /\ changes' = changes
          /\ ~ops'[Len(ops')].fired]_vars

\* set was called on the unbound value, and on a bound one before it
C37_Witness ==
    \E i, j \in 1..Len(ops) :
        /\ i < j
        /\ ops[i].op = "set" /\ ops[i].d \in Devices
        /\ ops[j].op = "set" /\ ops[j].d \in Unbound
        /\ Len(telegrams) = 1

(***************************************************************************)
(* C38.  A set(v) that raises while it builds or queues the SET Telegram   *)
(* leaves the Remote Value as it was: the payload is the one before the    *)
(* call and onChange has not been invoked.                                 *)
(***************************************************************************)
C38_FailedSetLeavesValue ==
    \A i \in 1..Len(ops) :
        (ops[i].op = "set" /\ ops[i].raised # "none" /\ IsLastOp(i)) =>
            /\ payload[ops[i].d] = ops[i].before
            /\ ~ops[i].fired
            /\ ops[i].put \notin Ids(telegrams)

(***************************************************************************)
(* C39.  Every item the consumer has taken from the queue, the stop        *)
(* sentinel included, is marked done: the queue's count of unfinished      *)
(* items is the number of items still queued, so it is zero once the queue *)
(* is drained and a join() after stop() returns.                           *)
(***************************************************************************)
C39_AllTakenDone ==
    unfinished = Len(telegrams)

====
